---- MODULE Spec2Model ----
(***************************************************************************)
(* Model of the wolfssl context layer (src/src/context.rs): the consuming  *)
(* WolfContextBuilder, the shared WolfContext (Arc<Mutex<*mut CTX>>), the   *)
(* sessions derived from it and the Drop implementation that releases the  *)
(* native context.  One native context handle is modelled; threads own     *)
(* tokens (WolfContext values) of its sharing group.                       *)
(***************************************************************************)
EXTENDS Integers, FiniteSets, Sequences, TLC

\* ---------------------------------------------------------------- bounds
NumThreads == 2
MaxTokens == 3

Threads == 1..NumThreads
Tokens == 1..MaxTokens

\* ------------------------------------------------------- program domains
\* WolfMethod: the six protocol variants.
Methods == {"TlsClient", "TlsServer", "DtlsClient", "DtlsServer",
            "DtlsClientV1_2", "DtlsServerV1_2"}

\* Status values a native configuration call can return.
Statuses == {"WOLFSSL_SUCCESS", "WOLFSSL_FAILURE", "BAD_FUNC_ARG"}

\* A path or string argument: whether it names a directory, whether it is
\* valid UTF-8 (Path::to_str) and whether it holds an interior NUL
\* (CString::new).
NoText == [isDir |-> FALSE, utf8 |-> TRUE, nul |-> FALSE]
Texts == [isDir : BOOLEAN, utf8 : BOOLEAN, nul : BOOLEAN]

\* RootCertificate: Asn1Buffer | PemBuffer | PemFileOrDirectory(path)
RootCertificates ==
    {[kind |-> k, text |-> NoText] : k \in {"Asn1Buffer", "PemBuffer"}}
    \cup {[kind |-> "PemFileOrDirectory", text |-> p] : p \in Texts}

\* Secret: Asn1Buffer | Asn1File(path) | PemBuffer | PemFile(path)
Secrets ==
    {[kind |-> k, text |-> NoText] : k \in {"Asn1Buffer", "PemBuffer"}}
    \cup {[kind |-> k, text |-> p] :
             k \in {"Asn1File", "PemFile"}, p \in {q \in Texts : ~q.isDir}}

\* &str cipher lists: always UTF-8, may hold an interior NUL.
CipherLists ==
    {[kind |-> "str", text |-> p] : p \in {q \in Texts : q.utf8 /\ ~q.isDir}}

NoInput == [kind |-> "none", text |-> NoText]

\* Path::to_str(): Some only for valid UTF-8.
to_str(p) == p.utf8
\* CString::new(): Ok only without an interior NUL byte.
CString_new(p) == ~p.nul
\* path.to_str()? followed by CString::new(..).ok()?
Representable(p) == to_str(p) /\ CString_new(p)

\* A native call as seen by the engine.
NoCall == [fn |-> "none", fmt |-> "none", file |-> "null", dir |-> "null"]
Call(f, m, fi, d) == [fn |-> f, fmt |-> m, file |-> fi, dir |-> d]

NoResult == [tag |-> "pending", val |-> "none"]
Res(t, v) == [tag |-> t, val |-> v]

\* LoadRootCertificateError::from(result): a variant derived from the code.
LoadRootCertificateError_from(result) ==
    IF result = "WOLFSSL_FAILURE" THEN "Failure" ELSE "Other"

\* A thread's operation: its name, the token it acts on, the step the
\* consumed builder came from, its argument, the native call it made, the
\* status that call returned and the value returned to the caller.
Idle == [name |-> "none", tok |-> 0, prev |-> "none", input |-> NoInput,
         call |-> NoCall, ncalls |-> 0, status |-> "none",
         result |-> NoResult]

NoToken == [kind |-> "none", owner |-> 0, method |-> "none", ssl |-> "none"]
\* A WolfContext value that no longer exists.
DeadToken == [kind |-> "dead", owner |-> 0, method |-> "none", ssl |-> "none"]

VARIABLES
    handle,     \* native WOLFSSL_CTX: "none" | "null" | "live" | "freed"
    freeCount,  \* times wolfSSL_CTX_free ran on the handle
    requested,  \* the method passed to WolfContextBuilder::new
    uaf,        \* a native operation was invoked on the handle after its free
    lock,       \* holder of the handle's parking_lot::Mutex, 0 when free
    strong,     \* Arc::strong_count of the sharing group
    tok,        \* the WolfContext values (tokens) of the sharing group
    pc,         \* position of each thread inside its current operation
    op,         \* each thread's current (or last completed) operation
    inNative    \* the native function each thread is executing, or "none"

vars == <<handle, requested, freeCount, uaf, lock, strong, tok, pc, op, inNative>>

Init ==
    /\ handle = "none"
    /\ requested = "none"
    /\ freeCount = 0
    /\ uaf = FALSE
    /\ lock = 0
    /\ strong = 0
    /\ tok = [t \in Tokens |-> NoToken]
    /\ pc = [th \in Threads |-> "idle"]
    /\ op = [th \in Threads |-> Idle]
    /\ inNative = [th \in Threads |-> "none"]

\* ------------------------------------------------------------- helpers
FreshTokens == {t \in Tokens : tok[t].kind = "none"}
NextToken == CHOOSE t \in FreshTokens : \A u \in FreshTokens : t <= u

is_null_Never(ptr) == FALSE

\* ptr.is_null()
is_null(ptr) == ptr = "null"

ReleaseGuard_Leaked(th) == th

\* A MutexGuard held by the thread is dropped: the mutex has no holder.
ReleaseGuard(th) == 0

CanLock_Always(th) == TRUE

\* parking_lot::Mutex::lock() returns only when no thread holds the mutex.
CanLock(th) == lock = 0

\* WolfContext::method()
method(t) == tok[t].method

IsDtls12_AnyDtls(m) ==
    m \in {"DtlsClient", "DtlsServer", "DtlsClientV1_2", "DtlsServerV1_2"}

\* matches!(self.0.method(), DtlsClientV1_2 | DtlsServerV1_2)
IsDtls12(m) == m \in {"DtlsClientV1_2", "DtlsServerV1_2"}

\* A thread enters a native function on the handle.
EnterNative(th, fn) ==
    /\ inNative' = [inNative EXCEPT ![th] = fn]
    /\ uaf' = (uaf \/ handle = "freed")

LeaveNative(th) == inNative' = [inNative EXCEPT ![th] = "none"]

\* The consumed builder goes out of scope in a failing step: its WolfContext
\* is dropped (Drop::drop, then the Arc field).
FailStep(th, res, st) ==
    /\ op' = [op EXCEPT ![th].result = res, ![th].status = st]
    /\ tok' = [tok EXCEPT ![op[th].tok].kind = "dropping"]
    /\ pc' = [pc EXCEPT ![th] = "drop_lock"]

OwnsBuilder_OrContext(th, t) ==
    tok[t].kind \in {"builder", "context"} /\ tok[t].owner = th

\* The thread holds the WolfContextBuilder wrapping token t.
OwnsBuilder(th, t) == tok[t].kind = "builder" /\ tok[t].owner = th

Begin(th, t, nm, inp, next) ==
    /\ pc[th] = "idle"
    /\ OwnsBuilder(th, t)
    /\ op' = [op EXCEPT ![th] = [Idle EXCEPT !.name = nm, !.tok = t,
                                              !.prev = op[th].name,
                                              !.input = inp]]
    /\ pc' = [pc EXCEPT ![th] = next]

\* let ctx = self.0.ctx.lock();
StepLock(th, nm, next) ==
    /\ pc[th] = "lock"
    /\ op[th].name = nm
    /\ CanLock(th)
    /\ lock' = th
    /\ pc' = [pc EXCEPT ![th] = next]
    /\ UNCHANGED <<handle, requested, freeCount, uaf, strong, tok, op, inNative>>

\* The native call of a step is entered with the lock held.
StepCall(th, c) ==
    /\ op' = [op EXCEPT ![th].call = c, ![th].ncalls = @ + 1]
    /\ EnterNative(th, c.fn)
    /\ pc' = [pc EXCEPT ![th] = "ret"]
    /\ UNCHANGED <<handle, requested, freeCount, lock, strong, tok>>

\* -------------------------------------------------- WolfContextBuilder
\* WolfContextBuilder::new(method)
New(th, m) ==
    /\ pc[th] = "idle"
    /\ handle = "none"
    /\ \E ptr \in {"null", "live"} :
         /\ handle' = ptr
         /\ requested' = m
         /\ IF ~is_null(ptr)
            THEN /\ tok' = [tok EXCEPT ![NextToken] =
                       [kind |-> "builder", owner |-> th, method |-> m,
                        ssl |-> "none"]]
                 /\ strong' = 1
                 /\ op' = [op EXCEPT ![th] =
                       [Idle EXCEPT !.name = "new", !.tok = NextToken,
                                    !.input = [kind |-> m, text |-> NoText],
                                    !.status = ptr,
                                    !.result = Res("Some", "builder")]]
            ELSE /\ UNCHANGED <<tok, strong>>
                 /\ op' = [op EXCEPT ![th] =
                       [Idle EXCEPT !.name = "new",
                                    !.input = [kind |-> m, text |-> NoText],
                                    !.status = ptr,
                                    !.result = Res("None", "none")]]
    /\ UNCHANGED <<freeCount, uaf, lock, pc, inNative>>

\* with_root_certificate(self, root): entry.
WithRootCertificate(th, t, root) ==
    /\ Begin(th, t, "with_root_certificate", root, "lock")
    /\ UNCHANGED <<handle, requested, freeCount, uaf, lock, strong, tok, inNative>>

WithRootCertificateLock(th) == StepLock(th, "with_root_certificate", "call")

RootCall_BothPaths(root) ==
    CASE root.kind = "Asn1Buffer" ->
           Call("wolfSSL_CTX_load_verify_buffer", "WOLFSSL_FILETYPE_ASN1",
                "null", "null")
      [] root.kind = "PemBuffer" ->
           Call("wolfSSL_CTX_load_verify_buffer", "WOLFSSL_FILETYPE_PEM",
                "null", "null")
      [] root.kind = "PemFileOrDirectory" ->
           Call("wolfSSL_CTX_load_verify_locations", "none", "path", "path")

\* The native call chosen by `match root`.
RootCall(root) ==
    CASE root.kind = "Asn1Buffer" ->
           Call("wolfSSL_CTX_load_verify_buffer", "WOLFSSL_FILETYPE_ASN1",
                "null", "null")
      [] root.kind = "PemBuffer" ->
           Call("wolfSSL_CTX_load_verify_buffer", "WOLFSSL_FILETYPE_PEM",
                "null", "null")
      [] root.kind = "PemFileOrDirectory" ->
           IF root.text.isDir
           THEN Call("wolfSSL_CTX_load_verify_locations", "none",
                     "null", "path")
           ELSE Call("wolfSSL_CTX_load_verify_locations", "none",
                     "path", "null")

RootPathError_AsOther == Res("Err", "Other")

\* The value `?` returns when the path has no C string form.
RootPathError == Res("Err", "Path")

\* `match root { ... }`: the native load call, or the early `?` return that
\* drops the guard and then the builder.
WithRootCertificateCall(th) ==
    /\ pc[th] = "call"
    /\ op[th].name = "with_root_certificate"
    /\ LET root == op[th].input IN
       IF root.kind = "PemFileOrDirectory" /\ ~Representable(root.text)
       THEN /\ lock' = ReleaseGuard(th)
            /\ FailStep(th, RootPathError, "none")
            /\ UNCHANGED <<handle, requested, freeCount, uaf, strong, inNative>>
       ELSE StepCall(th, RootCall(root))

\* drop(ctx); if result == WOLFSSL_SUCCESS { Ok(self) } else { Err(from) }
WithRootCertificateRet(th) ==
    /\ pc[th] = "ret"
    /\ op[th].name = "with_root_certificate"
    /\ LeaveNative(th)
    /\ lock' = ReleaseGuard(th)
    /\ \E result \in Statuses :
         IF result = "WOLFSSL_SUCCESS"
         THEN /\ op' = [op EXCEPT ![th].result = Res("Ok", "builder"),
                                   ![th].status = result]
              /\ pc' = [pc EXCEPT ![th] = "idle"]
              /\ UNCHANGED tok
         ELSE FailStep(th, Res("Err", LoadRootCertificateError_from(result)),
                       result)
    /\ UNCHANGED <<handle, requested, freeCount, uaf, strong>>

\* with_cipher_list(self, cipher_list): CString::new(cipher_list).ok()? runs
\* before the lock is taken.
WithCipherList(th, t, cl) ==
    /\ pc[th] = "idle"
    /\ OwnsBuilder(th, t)
    /\ IF CString_new(cl.text)
       THEN /\ op' = [op EXCEPT ![th] =
                  [Idle EXCEPT !.name = "with_cipher_list", !.tok = t,
                               !.prev = op[th].name, !.input = cl]]
            /\ pc' = [pc EXCEPT ![th] = "lock"]
            /\ UNCHANGED tok
       ELSE /\ op' = [op EXCEPT ![th] =
                  [Idle EXCEPT !.name = "with_cipher_list", !.tok = t,
                               !.prev = op[th].name, !.input = cl,
                               !.result = Res("None", "none")]]
            /\ tok' = [tok EXCEPT ![t].kind = "dropping"]
            /\ pc' = [pc EXCEPT ![th] = "drop_lock"]
    /\ UNCHANGED <<handle, requested, freeCount, uaf, lock, strong, inNative>>

WithCipherListLock(th) == StepLock(th, "with_cipher_list", "call")

WithCipherListCall(th) ==
    /\ pc[th] = "call"
    /\ op[th].name = "with_cipher_list"
    /\ StepCall(th, Call("wolfSSL_CTX_set_cipher_list", "none", "null", "null"))

OptionResult_AlwaysSome(result) == Res("Some", "builder")

\* Steps returning Option<Self>: Some(self) on WOLFSSL_SUCCESS, else None.
OptionResult(result) ==
    IF result = "WOLFSSL_SUCCESS" THEN Res("Some", "builder")
                                  ELSE Res("None", "none")

\* The guard is released, then the status decides between Some(self) and
\* None (which drops the builder).
OptionRet(th, nm) ==
    /\ pc[th] = "ret"
    /\ op[th].name = nm
    /\ LeaveNative(th)
    /\ lock' = ReleaseGuard(th)
    /\ \E result \in Statuses :
         IF OptionResult(result).tag = "Some"
         THEN /\ op' = [op EXCEPT ![th].result = OptionResult(result),
                                   ![th].status = result]
              /\ pc' = [pc EXCEPT ![th] = "idle"]
              /\ UNCHANGED tok
         ELSE FailStep(th, OptionResult(result), result)
    /\ UNCHANGED <<handle, requested, freeCount, uaf, strong>>

WithCipherListRet(th) == OptionRet(th, "with_cipher_list")

\* The native call chosen by `match secret` in with_certificate.
CertificateCall(secret) ==
    CASE secret.kind = "Asn1Buffer" ->
           Call("wolfSSL_CTX_use_certificate_buffer", "WOLFSSL_FILETYPE_ASN1",
                "null", "null")
      [] secret.kind = "Asn1File" ->
           Call("wolfSSL_CTX_use_certificate_file", "WOLFSSL_FILETYPE_ASN1",
                "path", "null")
      [] secret.kind = "PemBuffer" ->
           Call("wolfSSL_CTX_use_certificate_buffer", "WOLFSSL_FILETYPE_PEM",
                "null", "null")
      [] secret.kind = "PemFile" ->
           Call("wolfSSL_CTX_use_certificate_file", "WOLFSSL_FILETYPE_PEM",
                "path", "null")

PrivateKeyCall_AsCertificate(secret) == CertificateCall(secret)

\* The native call chosen by `match secret` in with_private_key.
PrivateKeyCall(secret) ==
    CASE secret.kind = "Asn1Buffer" ->
           Call("wolfSSL_CTX_use_PrivateKey_buffer", "WOLFSSL_FILETYPE_ASN1",
                "null", "null")
      [] secret.kind = "Asn1File" ->
           Call("wolfSSL_CTX_use_PrivateKey_file", "WOLFSSL_FILETYPE_ASN1",
                "path", "null")
      [] secret.kind = "PemBuffer" ->
           Call("wolfSSL_CTX_use_PrivateKey_buffer", "WOLFSSL_FILETYPE_PEM",
                "null", "null")
      [] secret.kind = "PemFile" ->
           Call("wolfSSL_CTX_use_PrivateKey_file", "WOLFSSL_FILETYPE_PEM",
                "path", "null")

IsFileSecret(secret) == secret.kind \in {"Asn1File", "PemFile"}

\* `match secret { ... }` of with_certificate / with_private_key: the native
\* call, or the early `?` return (None) on a path without C string form.
SecretCall(th, nm, c) ==
    /\ pc[th] = "call"
    /\ op[th].name = nm
    /\ LET secret == op[th].input IN
       IF IsFileSecret(secret) /\ ~Representable(secret.text)
       THEN /\ lock' = ReleaseGuard(th)
            /\ FailStep(th, Res("None", "none"), "none")
            /\ UNCHANGED <<handle, requested, freeCount, uaf, strong, inNative>>
       ELSE StepCall(th, c)

WithCertificate(th, t, secret) ==
    /\ Begin(th, t, "with_certificate", secret, "lock")
    /\ UNCHANGED <<handle, requested, freeCount, uaf, lock, strong, tok, inNative>>

WithCertificateLock(th) == StepLock(th, "with_certificate", "call")

WithCertificateCall(th) ==
    SecretCall(th, "with_certificate", CertificateCall(op[th].input))

WithCertificateRet(th) == OptionRet(th, "with_certificate")

WithPrivateKey(th, t, secret) ==
    /\ Begin(th, t, "with_private_key", secret, "lock")
    /\ UNCHANGED <<handle, requested, freeCount, uaf, lock, strong, tok, inNative>>

WithPrivateKeyLock(th) == StepLock(th, "with_private_key", "call")

WithPrivateKeyCall(th) ==
    SecretCall(th, "with_private_key", PrivateKeyCall(op[th].input))

WithPrivateKeyRet(th) == OptionRet(th, "with_private_key")

\* with_secure_renegotiation(self): a logged no-op returning Some(self)
\* unless the method is one of the two DTLS 1.2 variants.
WithSecureRenegotiation(th, t) ==
    /\ pc[th] = "idle"
    /\ OwnsBuilder(th, t)
    /\ IF ~IsDtls12(method(t))
       THEN /\ op' = [op EXCEPT ![th] =
                  [Idle EXCEPT !.name = "with_secure_renegotiation",
                               !.tok = t, !.prev = op[th].name,
                               !.result = Res("Some", "builder")]]
            /\ UNCHANGED pc
       ELSE /\ op' = [op EXCEPT ![th] =
                  [Idle EXCEPT !.name = "with_secure_renegotiation",
                               !.tok = t, !.prev = op[th].name]]
            /\ pc' = [pc EXCEPT ![th] = "lock"]
    /\ UNCHANGED <<handle, requested, freeCount, uaf, lock, strong, tok, inNative>>

WithSecureRenegotiationLock(th) ==
    StepLock(th, "with_secure_renegotiation", "call")

WithSecureRenegotiationCall(th) ==
    /\ pc[th] = "call"
    /\ op[th].name = "with_secure_renegotiation"
    /\ StepCall(th, Call("wolfSSL_CTX_UseSecureRenegotiation", "none",
                         "null", "null"))

WithSecureRenegotiationRet(th) == OptionRet(th, "with_secure_renegotiation")

BuiltToken_FirstVariant(t) ==
    [tok[t] EXCEPT !.kind = "context", !.method = "TlsClient"]

\* self.0: the WolfContext the builder wraps.
BuiltToken(t) == [tok[t] EXCEPT !.kind = "context"]

\* build(self) -> WolfContext: self.0
Build(th, t) ==
    /\ pc[th] = "idle"
    /\ OwnsBuilder(th, t)
    /\ tok' = [tok EXCEPT ![t] = BuiltToken(t)]
    /\ op' = [op EXCEPT ![th] =
          [Idle EXCEPT !.name = "build",
                       !.result = Res("Ok", "context")]]
    /\ UNCHANGED <<handle, requested, freeCount, uaf, lock, strong, pc, inNative>>

\* ----------------------------------------------------------- WolfContext
OwnsContext(th, t) == tok[t].kind = "context" /\ tok[t].owner = th

CloneOf_FirstVariant(t, dest, k) ==
    [kind |-> k, owner |-> dest, method |-> "TlsClient",
     ssl |-> IF k = "session" THEN "live" ELSE "none"]

\* The token #[derive(Clone)] produces: the same Arc, the same method.
CloneOf(t, dest, k) ==
    [kind |-> k, owner |-> dest, method |-> tok[t].method,
     ssl |-> IF k = "session" THEN "live" ELSE "none"]

ArcClone_NoIncrement(count) == count

\* Arc::clone: one more strong reference.
ArcClone(count) == count + 1

\* WolfContext::clone(&self); the clone may be handed to another thread.
Clone(th, t, dest) ==
    /\ pc[th] = "idle"
    /\ OwnsContext(th, t)
    /\ FreshTokens # {}
    /\ tok' = [tok EXCEPT ![NextToken] = CloneOf(t, dest, "context")]
    /\ strong' = ArcClone(strong)
    /\ op' = [op EXCEPT ![th] = Idle]
    /\ UNCHANGED <<handle, requested, freeCount, uaf, lock, pc, inNative>>

\* new_session(&self): entry; self stays borrowed until the call returns.
NewSession(th, t) ==
    /\ pc[th] = "idle"
    /\ OwnsContext(th, t)
    /\ FreshTokens # {}
    /\ op' = [op EXCEPT ![th] =
          [Idle EXCEPT !.name = "new_session", !.tok = t]]
    /\ pc' = [pc EXCEPT ![th] = "lock"]
    /\ UNCHANGED <<handle, requested, freeCount, uaf, lock, strong, tok, inNative>>

NewSessionLock(th) == StepLock(th, "new_session", "call")

\* wolfSSL_new(*ctx)
NewSessionCall(th) ==
    /\ pc[th] = "call"
    /\ op[th].name = "new_session"
    /\ StepCall(th, Call("wolfSSL_new", "none", "null", "null"))

\* Some(WolfSession { ctx: self.clone(), ssl }) on a non-null pointer,
\* None otherwise; the guard is still held.
NewSessionRet(th) ==
    /\ pc[th] = "ret"
    /\ op[th].name = "new_session"
    /\ LeaveNative(th)
    /\ \E ptr \in {"null", "live"} :
         /\ ptr = "live" => FreshTokens # {}
         /\ IF ~is_null(ptr)
            THEN /\ tok' = [tok EXCEPT ![NextToken] =
                       CloneOf(op[th].tok, th, "session")]
                 /\ strong' = ArcClone(strong)
                 /\ op' = [op EXCEPT ![th].result = Res("Some", "session"),
                                      ![th].status = ptr]
            ELSE /\ op' = [op EXCEPT ![th].result = Res("None", "none"),
                                      ![th].status = ptr]
                 /\ UNCHANGED <<tok, strong>>
    /\ pc' = [pc EXCEPT ![th] = "unlock"]
    /\ UNCHANGED <<handle, requested, freeCount, uaf, lock>>

\* The guard `ctx` goes out of scope when new_session returns.
NewSessionUnlock(th) ==
    /\ pc[th] = "unlock"
    /\ op[th].name = "new_session"
    /\ lock' = ReleaseGuard(th)
    /\ op' = [op EXCEPT ![th] = Idle]
    /\ pc' = [pc EXCEPT ![th] = "idle"]
    /\ UNCHANGED <<handle, requested, freeCount, uaf, strong, tok, inNative>>

\* ------------------------------------------------- impl Drop for WolfContext
\* A builder or a Context owned by the thread goes out of scope.
DropContext(th, t) ==
    /\ pc[th] = "idle"
    /\ (OwnsBuilder(th, t) \/ OwnsContext(th, t))
    /\ tok' = [tok EXCEPT ![t].kind = "dropping"]
    /\ op' = [op EXCEPT ![th] = [Idle EXCEPT !.name = "drop", !.tok = t]]
    /\ pc' = [pc EXCEPT ![th] = "drop_lock"]
    /\ UNCHANGED <<handle, requested, freeCount, uaf, lock, strong, inNative>>

\* A session goes out of scope: its native session is released, then its
\* field `ctx` (a WolfContext) is dropped.
DropSession(th, t) ==
    /\ pc[th] = "idle"
    /\ tok[t].kind = "session" /\ tok[t].owner = th
    /\ tok' = [tok EXCEPT ![t].kind = "dropping", ![t].ssl = "freed"]
    /\ op' = [op EXCEPT ![th] =
          [Idle EXCEPT !.name = "drop_session", !.tok = t]]
    /\ pc' = [pc EXCEPT ![th] = "drop_lock"]
    /\ UNCHANGED <<handle, requested, freeCount, uaf, lock, strong, inNative>>

\* let ctx = self.ctx.lock();
DropLock(th) ==
    /\ pc[th] = "drop_lock"
    /\ CanLock(th)
    /\ lock' = th
    /\ pc' = [pc EXCEPT ![th] = "drop_check"]
    /\ UNCHANGED <<handle, requested, freeCount, uaf, strong, tok, op, inNative>>

ShouldFree_AtMostTwo(count) == count <= 2

ShouldFree_Always(count) == TRUE

ShouldFree_Zero(count) == count = 0

\* Arc::strong_count(&self.ctx) == 1
ShouldFree(count) == count = 1

\* if Arc::strong_count(..) == 1 { wolfSSL_CTX_free(*ctx) }
DropCheck(th) ==
    /\ pc[th] = "drop_check"
    /\ IF ShouldFree(strong)
       THEN /\ EnterNative(th, "wolfSSL_CTX_free")
            /\ pc' = [pc EXCEPT ![th] = "drop_free"]
       ELSE /\ pc' = [pc EXCEPT ![th] = "drop_unlock"]
            /\ UNCHANGED <<uaf, inNative>>
    /\ UNCHANGED <<handle, requested, freeCount, lock, strong, tok, op>>

\* wolfSSL_CTX_free returns: the native context is gone.
DropFree(th) ==
    /\ pc[th] = "drop_free"
    /\ LeaveNative(th)
    /\ handle' = "freed"
    /\ UNCHANGED requested
    /\ freeCount' = IF freeCount < 2 THEN freeCount + 1 ELSE freeCount
    /\ pc' = [pc EXCEPT ![th] = "drop_unlock"]
    /\ UNCHANGED <<uaf, lock, strong, tok, op>>

\* End of Drop::drop: the guard is released.
DropUnlock(th) ==
    /\ pc[th] = "drop_unlock"
    /\ lock' = ReleaseGuard(th)
    /\ pc' = [pc EXCEPT ![th] = "drop_arc"]
    /\ UNCHANGED <<handle, requested, freeCount, uaf, strong, tok, op, inNative>>

\* After Drop::drop returned, the field `ctx: Arc<..>` is dropped: the
\* strong count is decremented.
DropArc(th) ==
    /\ pc[th] = "drop_arc"
    /\ strong' = strong - 1
    /\ tok' = [tok EXCEPT ![op[th].tok] = DeadToken]
    /\ op' = [op EXCEPT ![th] = IF op[th].name \in {"drop", "drop_session"}
                                 THEN Idle ELSE op[th]]
    /\ pc' = [pc EXCEPT ![th] = "idle"]
    /\ UNCHANGED <<handle, requested, freeCount, uaf, lock, inNative>>

\* Every operation on an existing builder, Context or Session.
Operate ==
    \/ \E th \in Threads, t \in Tokens, r \in RootCertificates :
         WithRootCertificate(th, t, r)
    \/ \E th \in Threads : WithRootCertificateLock(th)
    \/ \E th \in Threads : WithRootCertificateCall(th)
    \/ \E th \in Threads : WithRootCertificateRet(th)
    \/ \E th \in Threads, t \in Tokens, cl \in CipherLists :
         WithCipherList(th, t, cl)
    \/ \E th \in Threads : WithCipherListLock(th)
    \/ \E th \in Threads : WithCipherListCall(th)
    \/ \E th \in Threads : WithCipherListRet(th)
    \/ \E th \in Threads, t \in Tokens, s \in Secrets :
         WithCertificate(th, t, s)
    \/ \E th \in Threads : WithCertificateLock(th)
    \/ \E th \in Threads : WithCertificateCall(th)
    \/ \E th \in Threads : WithCertificateRet(th)
    \/ \E th \in Threads, t \in Tokens, s \in Secrets :
         WithPrivateKey(th, t, s)
    \/ \E th \in Threads : WithPrivateKeyLock(th)
    \/ \E th \in Threads : WithPrivateKeyCall(th)
    \/ \E th \in Threads : WithPrivateKeyRet(th)
    \/ \E th \in Threads, t \in Tokens : WithSecureRenegotiation(th, t)
    \/ \E th \in Threads : WithSecureRenegotiationLock(th)
    \/ \E th \in Threads : WithSecureRenegotiationCall(th)
    \/ \E th \in Threads : WithSecureRenegotiationRet(th)
    \/ \E th \in Threads, t \in Tokens : Build(th, t)
    \/ \E th \in Threads, t \in Tokens, dest \in Threads : Clone(th, t, dest)
    \/ \E th \in Threads, t \in Tokens : NewSession(th, t)
    \/ \E th \in Threads : NewSessionLock(th)
    \/ \E th \in Threads : NewSessionCall(th)
    \/ \E th \in Threads : NewSessionRet(th)
    \/ \E th \in Threads : NewSessionUnlock(th)
    \/ \E th \in Threads, t \in Tokens : DropContext(th, t)
    \/ \E th \in Threads, t \in Tokens : DropSession(th, t)
    \/ \E th \in Threads : DropLock(th)
    \/ \E th \in Threads : DropCheck(th)
    \/ \E th \in Threads : DropFree(th)
    \/ \E th \in Threads : DropUnlock(th)
    \/ \E th \in Threads : DropArc(th)

Next ==
    \/ \E th \in Threads, m \in Methods : New(th, m)
    \/ Operate

Spec == Init /\ [][Next]_vars

\* The steps by which a thread requests the handle's mutex.
LockSteps(th) ==
    \/ WithRootCertificateLock(th)
    \/ WithCipherListLock(th)
    \/ WithCertificateLock(th)
    \/ WithPrivateKeyLock(th)
    \/ WithSecureRenegotiationLock(th)
    \/ NewSessionLock(th)
    \/ DropLock(th)

\* The steps a thread takes on its own inside a started operation.
RunSteps(th) ==
    \/ WithRootCertificateCall(th) \/ WithRootCertificateRet(th)
    \/ WithCipherListCall(th) \/ WithCipherListRet(th)
    \/ WithCertificateCall(th) \/ WithCertificateRet(th)
    \/ WithPrivateKeyCall(th) \/ WithPrivateKeyRet(th)
    \/ WithSecureRenegotiationCall(th) \/ WithSecureRenegotiationRet(th)
    \/ NewSessionCall(th) \/ NewSessionRet(th) \/ NewSessionUnlock(th)
    \/ DropCheck(th) \/ DropFree(th) \/ DropUnlock(th) \/ DropArc(th)

\* A running thread keeps running, native calls return, and the mutex is
\* eventually handed to every thread that keeps requesting it.
\* The method only decides whether with_secure_renegotiation takes the lock;
\* with a DTLS 1.2 method every builder step does.
FairMethods == {"DtlsClientV1_2"}

FairNext ==
    \/ \E th \in Threads, m \in FairMethods : New(th, m)
    \/ Operate

FairSpec ==
    /\ Init /\ [][FairNext]_vars
    /\ \A th \in Threads : WF_vars(RunSteps(th))
    /\ \A th \in Threads : SF_vars(LockSteps(th))

\* ------------------------------------------------ wolf_init / wolf_cleanup
\* Return codes of wolfSSL_Init and wolfSSL_Cleanup.
GlobalCodes == {"WOLFSSL_SUCCESS", "BAD_MUTEX_E", "WC_INIT_E",
                "WOLFSSL_FAILURE", "MEMORY_E"}

\* match wolfSSL_Init() { .. }
InitResult(code) ==
    CASE code = "WOLFSSL_SUCCESS" -> Res("Ok", "unit")
      [] code = "BAD_MUTEX_E" -> Res("Err", "WolfInitError::Mutex")
      [] code = "WC_INIT_E" -> Res("Err", "WolfInitError::WolfCrypt")
      [] OTHER -> Res("panic", "none")

CleanupResult_LikeInit(code) ==
    CASE code = "WOLFSSL_SUCCESS" -> Res("Ok", "unit")
      [] code = "BAD_MUTEX_E" -> Res("Err", "WolfCleanupError::Mutex")
      [] code = "WC_INIT_E" -> Res("Err", "WolfCleanupError::WolfCrypt")
      [] OTHER -> Res("panic", "none")

\* match wolfSSL_Cleanup() { .. }
CleanupResult(code) ==
    CASE code = "WOLFSSL_SUCCESS" -> Res("Ok", "unit")
      [] code = "BAD_MUTEX_E" -> Res("Err", "WolfCleanupError::Mutex")
      [] OTHER -> Res("panic", "none")

\* A thread calls a global function of the native engine.
GlobalCall(th, nm, fn) ==
    /\ pc[th] = "idle"
    /\ op' = [op EXCEPT ![th] = [Idle EXCEPT !.name = nm,
                                              !.call = Call(fn, "none",
                                                            "null", "null"),
                                              !.ncalls = 1]]
    /\ inNative' = [inNative EXCEPT ![th] = fn]
    /\ pc' = [pc EXCEPT ![th] = "ret"]
    /\ UNCHANGED <<handle, requested, freeCount, uaf, lock, strong, tok>>

\* The native function returns a code; the match maps it to Ok, to an error
\* value, or panics.
GlobalRet(th, nm, code, res) ==
    /\ pc[th] = "ret"
    /\ op[th].name = nm
    /\ op' = [op EXCEPT ![th].status = code, ![th].result = res]
    /\ LeaveNative(th)
    /\ pc' = [pc EXCEPT ![th] = IF res.tag = "panic" THEN "panicked"
                                                     ELSE "idle"]
    /\ UNCHANGED <<handle, requested, freeCount, uaf, lock, strong, tok>>

\* wolf_init()
WolfInit(th) == GlobalCall(th, "wolf_init", "wolfSSL_Init")

WolfInitRet(th) ==
    \E code \in GlobalCodes :
        GlobalRet(th, "wolf_init", code, InitResult(code))

\* wolf_cleanup()
WolfCleanup(th) == GlobalCall(th, "wolf_cleanup", "wolfSSL_Cleanup")

WolfCleanupRet(th) ==
    \E code \in GlobalCodes :
        GlobalRet(th, "wolf_cleanup", code, CleanupResult(code))

NextLifecycle ==
    \/ \E th \in Threads : WolfInit(th)
    \/ \E th \in Threads : WolfInitRet(th)
    \/ \E th \in Threads : WolfCleanup(th)
    \/ \E th \in Threads : WolfCleanupRet(th)

SpecLifecycle == Init /\ [][NextLifecycle]_vars

\* ------------------------------------------------------------ properties
LiveKinds == {"builder", "context", "session", "dropping"}
LiveTokens == {t \in Tokens : tok[t].kind \in LiveKinds}
DeadTokens == {t \in Tokens : tok[t].kind = "dead"}
FreeRunning == \E th \in Threads : inNative[th] = "wolfSSL_CTX_free"

\* Every token of the sharing group has been dropped.
AllDropped == DeadTokens # {} /\ LiveTokens = {}

\* C1: once every token of the sharing group has been dropped, the native
\* free-context operation has run exactly once on the handle.
C1_FreedExactlyOnce == AllDropped => freeCount = 1

\* C2: while a Session created by new_session() has not been dropped,
\* free-context has neither run nor been entered on the context handle,
\* whatever Context values the application has dropped.
C2_SessionKeepsContextAlive ==
    (\E t \in Tokens : tok[t].kind = "session")
        => (handle = "live" /\ freeCount = 0 /\ ~FreeRunning)

\* A session is alive and every other token of the group is gone.
C2_Witness ==
    /\ \E t \in Tokens : tok[t].kind = "session"
    /\ \A t \in Tokens : tok[t].kind \in {"session", "dead"}
    /\ Cardinality(DeadTokens) >= 2

\* C3: free-context runs at most once, only when the dropped token is the
\* only token left in the group, and no native operation is invoked on the
\* handle after it.
C3_FreeOnceAndLast ==
    /\ freeCount <= 1
    /\ ~uaf
    /\ (FreeRunning \/ handle = "freed")
          => (Cardinality(LiveTokens) <= 1
               /\ \A t \in LiveTokens : tok[t].kind = "dropping")
    /\ handle = "freed" => \A th \in Threads : inNative[th] = "none"

\* The handle was freed after clones and sessions had been made and dropped.
C3_Witness == freeCount = 1 /\ \A t \in Tokens : tok[t].kind = "dead"

\* C4: at most one thread is inside a native operation on the handle, and
\* a thread inside one holds the handle's mutex.
C4_NativeUnderLock ==
    /\ \A a, b \in Threads :
          (inNative[a] # "none" /\ inNative[b] # "none") => a = b
    /\ \A th \in Threads : inNative[th] # "none" => lock = th

\* One thread is inside wolfSSL_new while another waits for the mutex.
C4_Witness ==
    \E a, b \in Threads :
        /\ inNative[a] = "wolfSSL_new"
        /\ pc[b] \in {"lock", "drop_lock"}

Returned(th) == op[th].result.tag # "pending"
ReturnedBuilder(th) == op[th].result.tag \in {"Ok", "Some"}
TextSteps == {"with_root_certificate", "with_cipher_list",
              "with_certificate", "with_private_key"}
Dtls12Methods == {"DtlsClientV1_2", "DtlsServerV1_2"}
FailureStatuses == Statuses \ {"WOLFSSL_SUCCESS"}

\* C5: a builder step (secure renegotiation only on DTLS 1.2) returns a
\* builder exactly when the native call it made returned WOLFSSL_SUCCESS;
\* otherwise it returns a failure value and the builder is consumed, so no
\* later step or build() can run on it.
C5_BuilderIffNativeSuccess ==
    \A th \in Threads :
        (/\ \/ op[th].name \in TextSteps
            \/ (op[th].name = "with_secure_renegotiation"
                  /\ requested \in Dtls12Methods)
         /\ Returned(th))
        => /\ ReturnedBuilder(th) <=>
                (op[th].ncalls = 1 /\ op[th].status = "WOLFSSL_SUCCESS")
           /\ op[th].result.tag \in {"Ok", "Some", "None", "Err"}
           /\ ReturnedBuilder(th) =>
                (pc[th] = "idle" /\ OwnsBuilder(th, op[th].tok))
           /\ ~ReturnedBuilder(th) =>
                (/\ tok[op[th].tok].kind \in {"dropping", "dead"}
                 /\ \A t \in Tokens : ~OwnsBuilder(th, t))

\* Secure renegotiation on a DTLS 1.2 builder failed in the native engine.
C5_Witness ==
    \E th \in Threads :
        /\ op[th].name = "with_secure_renegotiation"
        /\ requested = "DtlsClientV1_2"
        /\ op[th].status = "BAD_FUNC_ARG"
        /\ op[th].result = Res("None", "none")
        /\ tok[op[th].tok].kind = "dead"

\* C6: on a builder whose method is not a DTLS 1.2 variant,
\* with_secure_renegotiation() returns Some(builder) at once, makes no
\* native call and changes neither the handle, the tokens, the count nor
\* the lock.
C6_SecureRenegotiationNoOp ==
    [][\A th \in Threads :
         (/\ pc[th] = "idle"
          /\ op'[th] # op[th]
          /\ op'[th].name = "with_secure_renegotiation"
          /\ tok[op'[th].tok].method \notin Dtls12Methods)
         => /\ op'[th].result = Res("Some", "builder")
            /\ op'[th].ncalls = 0
            /\ op'[th].call = NoCall
            /\ UNCHANGED <<handle, requested, freeCount, uaf, lock, strong,
                           tok, pc, inNative>>]_vars

\* The no-op was applied to a builder that a certificate had been loaded
\* into.
C6_Witness ==
    \E th \in Threads :
        /\ op[th].name = "with_secure_renegotiation"
        /\ op[th].prev = "with_certificate"
        /\ requested = "DtlsServer"
        /\ op[th].result = Res("Some", "builder")
        /\ OwnsBuilder(th, op[th].tok)

\* The values a step returns when the native engine reports non-success.
NativeFailureResults(nm) ==
    IF nm = "with_root_certificate"
    THEN {Res("Err", LoadRootCertificateError_from(st)) :
             st \in FailureStatuses}
    ELSE {OptionResult(st) : st \in FailureStatuses}

\* The step returned without a native call: its text had no C string form.
EncodingFailure(th) ==
    op[th].name \in TextSteps /\ Returned(th) /\ op[th].ncalls = 0

PastMatch(th) == pc[th] \notin {"lock", "call"}

\* C8: with_root_certificate makes exactly one native load call when the
\* input passes the encoding checks: load_verify_buffer tagged ASN.1 or PEM
\* for the buffers, load_verify_locations with only the directory argument
\* for a directory and only the file argument otherwise; an unrepresentable
\* path returns LoadRootCertificateError::Path without a native call.
C8_RootCertificateDispatch ==
    \A th \in Threads :
        op[th].name = "with_root_certificate" =>
            LET r == op[th].input
                c == op[th].call
                ok == r.text.utf8 /\ ~r.text.nul
            IN /\ op[th].ncalls <= 1
               /\ ~PastMatch(th) => op[th].ncalls = 0
               /\ (PastMatch(th) /\ r.kind = "Asn1Buffer") =>
                    /\ op[th].ncalls = 1
                    /\ c = Call("wolfSSL_CTX_load_verify_buffer",
                                "WOLFSSL_FILETYPE_ASN1", "null", "null")
               /\ (PastMatch(th) /\ r.kind = "PemBuffer") =>
                    /\ op[th].ncalls = 1
                    /\ c = Call("wolfSSL_CTX_load_verify_buffer",
                                "WOLFSSL_FILETYPE_PEM", "null", "null")
               /\ (PastMatch(th) /\ r.kind = "PemFileOrDirectory" /\ ok) =>
                    /\ op[th].ncalls = 1
                    /\ c.fn = "wolfSSL_CTX_load_verify_locations"
                    /\ r.text.isDir => (c.dir = "path" /\ c.file = "null")
                    /\ ~r.text.isDir => (c.file = "path" /\ c.dir = "null")
               /\ (PastMatch(th) /\ r.kind = "PemFileOrDirectory" /\ ~ok) =>
                    /\ op[th].ncalls = 0
                    /\ c = NoCall
                    /\ op[th].result = Res("Err", "Path")

\* A directory of trust roots was loaded successfully.
C8_Witness ==
    \E th \in Threads :
        /\ op[th].name = "with_root_certificate"
        /\ op[th].input.kind = "PemFileOrDirectory"
        /\ op[th].input.text.isDir
        /\ op[th].call.dir = "path"
        /\ op[th].result = Res("Ok", "builder")

SecretFormat(secret) ==
    IF secret.kind \in {"Asn1Buffer", "Asn1File"}
    THEN "WOLFSSL_FILETYPE_ASN1" ELSE "WOLFSSL_FILETYPE_PEM"

\* C9: with_certificate calls exactly the certificate buffer/file load and
\* with_private_key exactly the private-key buffer/file load that matches
\* the Secret variant and its format tag, and the step returns None on
\* native non-success or on an unrepresentable path.
C9_SecretDispatch ==
    \A th \in Threads :
        op[th].name \in {"with_certificate", "with_private_key"} =>
            LET sec == op[th].input
                c == op[th].call
                isFile == sec.kind \in {"Asn1File", "PemFile"}
                ok == ~isFile \/ (sec.text.utf8 /\ ~sec.text.nul)
                stem == IF op[th].name = "with_certificate"
                        THEN "wolfSSL_CTX_use_certificate"
                        ELSE "wolfSSL_CTX_use_PrivateKey"
            IN /\ op[th].ncalls <= 1
               /\ ~PastMatch(th) => op[th].ncalls = 0
               /\ (PastMatch(th) /\ ok) =>
                    /\ op[th].ncalls = 1
                    /\ c.fmt = SecretFormat(sec)
                    /\ isFile => (c.fn = stem \o "_file" /\ c.file = "path")
                    /\ ~isFile => (c.fn = stem \o "_buffer"
                                     /\ c.file = "null")
               /\ (PastMatch(th) /\ ~ok) =>
                    /\ op[th].ncalls = 0
                    /\ c = NoCall
                    /\ op[th].result = Res("None", "none")
               /\ (Returned(th) /\ op[th].status # "WOLFSSL_SUCCESS") =>
                    op[th].result = Res("None", "none")
               /\ (Returned(th) /\ op[th].status = "WOLFSSL_SUCCESS") =>
                    op[th].result = Res("Some", "builder")

\* A PEM private-key file was loaded successfully.
C9_Witness ==
    \E th \in Threads :
        /\ op[th].name = "with_private_key"
        /\ op[th].input.kind = "PemFile"
        /\ op[th].call = Call("wolfSSL_CTX_use_PrivateKey_file",
                              "WOLFSSL_FILETYPE_PEM", "path", "null")
        /\ op[th].result = Res("Some", "builder")

\* C10: method() of the builder, of the Context build() yields, of every
\* clone and of the Context held by every Session equals the variant that
\* was passed to new().
C10_MethodPreserved ==
    \A t \in Tokens :
        tok[t].kind \in LiveKinds =>
            (method(t) = requested /\ requested \in Methods)

\* A Context, a clone in another thread and a session of a DTLS 1.2 server.
C10_Witness ==
    \E a, b, c \in Tokens :
        /\ tok[a].kind = "context" /\ tok[b].kind = "context"
        /\ tok[a].owner # tok[b].owner
        /\ tok[c].kind = "session"
        /\ \A t \in {a, b, c} : method(t) = "DtlsServerV1_2"

\* C11: new() returns None exactly when wolfSSL_CTX_new returned null, and
\* then no token exists and free-context is never invoked; new_session()
\* returns None exactly when wolfSSL_new returned null, and then the call
\* leaves the sharing-group count, the tokens and the handle as they were.
C11_NewAbsent ==
    \A th \in Threads :
        op[th].name = "new" =>
            /\ op[th].result = Res("None", "none") <=> op[th].status = "null"
            /\ op[th].result # Res("None", "none") =>
                  (op[th].result = Res("Some", "builder")
                    /\ op[th].status = "live")
            /\ op[th].result = Res("None", "none") =>
                  /\ handle = "null"
                  /\ \A t \in Tokens : tok[t] = NoToken
                  /\ strong = 0
                  /\ freeCount = 0
                  /\ \A u \in Threads : inNative[u] = "none"

C11_NewSessionAbsent ==
    \A th \in Threads :
        (pc[th] = "ret" /\ op[th].name = "new_session"
          /\ pc'[th] = "unlock")
        => /\ op'[th].result = Res("None", "none")
                <=> op'[th].status = "null"
           /\ op'[th].result = Res("None", "none") =>
                UNCHANGED <<strong, tok, handle, freeCount>>
           /\ op'[th].result # Res("None", "none") =>
                /\ op'[th].result = Res("Some", "session")
                /\ strong' = strong + 1

\* C11 (both parts): construction failure is an absent value without side
\* effect, for new() in every state and for new_session() in every step.
C11_AbsentWithoutSideEffect ==
    []C11_NewAbsent /\ [][C11_NewSessionAbsent]_vars

\* new_session() returned None while a clone of the Context lives in another
\* thread.
C11_Witness ==
    \E th \in Threads :
        /\ pc[th] = "unlock"
        /\ op[th].name = "new_session"
        /\ op[th].status = "null"
        /\ op[th].result = Res("None", "none")
        /\ strong = 2
        /\ handle = "live"

\* C12: wolf_init() returns Ok exactly on WOLFSSL_SUCCESS, the Mutex error
\* exactly on BAD_MUTEX_E and the WolfCrypt error exactly on WC_INIT_E;
\* wolf_cleanup() returns Ok exactly on WOLFSSL_SUCCESS and the Mutex error
\* exactly on BAD_MUTEX_E; on every other code (WC_INIT_E from cleanup
\* included) the call panics and returns no value.
C12_LifecycleMapping ==
    \A th \in Threads :
        LET o == op[th] IN
        /\ (o.name = "wolf_init" /\ o.status # "none") =>
             /\ o.result = Res("Ok", "unit") <=> o.status = "WOLFSSL_SUCCESS"
             /\ o.result = Res("Err", "WolfInitError::Mutex")
                  <=> o.status = "BAD_MUTEX_E"
             /\ o.result = Res("Err", "WolfInitError::WolfCrypt")
                  <=> o.status = "WC_INIT_E"
             /\ o.status \notin {"WOLFSSL_SUCCESS", "BAD_MUTEX_E", "WC_INIT_E"}
                  <=> (o.result = Res("panic", "none")
                        /\ pc[th] = "panicked")
        /\ (o.name = "wolf_cleanup" /\ o.status # "none") =>
             /\ o.result = Res("Ok", "unit") <=> o.status = "WOLFSSL_SUCCESS"
             /\ o.result = Res("Err", "WolfCleanupError::Mutex")
                  <=> o.status = "BAD_MUTEX_E"
             /\ o.status \notin {"WOLFSSL_SUCCESS", "BAD_MUTEX_E"}
                  <=> (o.result = Res("panic", "none")
                        /\ pc[th] = "panicked")

\* wolf_cleanup() panicked on WC_INIT_E after wolf_init() had reported it
\* as an error in another thread.
C12_Witness ==
    \E a, b \in Threads :
        /\ op[a].name = "wolf_cleanup" /\ op[a].status = "WC_INIT_E"
        /\ pc[a] = "panicked"
        /\ op[b].name = "wolf_init" /\ op[b].status = "WC_INIT_E"
        /\ op[b].result = Res("Err", "WolfInitError::WolfCrypt")

ConfigFns == {"wolfSSL_CTX_load_verify_buffer",
              "wolfSSL_CTX_load_verify_locations",
              "wolfSSL_CTX_set_cipher_list",
              "wolfSSL_CTX_use_certificate_buffer",
              "wolfSSL_CTX_use_certificate_file",
              "wolfSSL_CTX_use_PrivateKey_buffer",
              "wolfSSL_CTX_use_PrivateKey_file",
              "wolfSSL_CTX_UseSecureRenegotiation"}

\* The builder's token is the only token that was ever made.
SoleToken(t) == strong = 1 /\ \A u \in Tokens \ {t} : tok[u] = NoToken

C13_PhaseInvariant ==
    /\ \A t \in Tokens : tok[t].kind = "builder" => SoleToken(t)
    /\ \A th \in Threads :
          /\ inNative[th] \in ConfigFns =>
                /\ tok[op[th].tok].kind = "builder"
                /\ SoleToken(op[th].tok)
                /\ \A u \in Threads \ {th} :
                      pc[u] = "idle" /\ inNative[u] = "none"
          /\ inNative[th] = "wolfSSL_new" =>
                tok[op[th].tok].kind = "context"

\* A token never becomes a builder again and a used token slot is never
\* reused, so a sole builder token means build() has not happened yet.
C13_PhaseStep ==
    \A t \in Tokens :
        /\ tok[t] # NoToken => tok'[t] # NoToken
        /\ tok[t].kind \notin {"none", "builder"} => tok'[t].kind # "builder"

\* C13: configuration calls are made only on a builder, whose token is the
\* only one of its group and which no other thread operates on; create-session
\* calls are made only on a built Context; once build() has happened or a
\* session exists no configuration call is made on the handle.
C13_LifecycleOrder == []C13_PhaseInvariant /\ [][C13_PhaseStep]_vars

\* wolfSSL_new runs on a built Context that already backs a session.
C13_Witness ==
    \E th \in Threads, t \in Tokens :
        /\ inNative[th] = "wolfSSL_new"
        /\ tok[op[th].tok].kind = "context"
        /\ tok[t].kind = "session"

\* C14: free-context runs on the handle only when no session created from it
\* still has its native session: a dropped Session releases its native
\* session before its Context clone can free the context.
C14_SessionReleasedFirst ==
    (FreeRunning \/ handle = "freed") =>
        \A t \in Tokens : tok[t].ssl # "live"

\* A Session that is the last holder is being dropped: its native session
\* is released and wolfSSL_CTX_free is running.
C14_Witness ==
    \E th \in Threads :
        /\ op[th].name = "drop_session"
        /\ inNative[th] = "wolfSSL_CTX_free"
        /\ tok[op[th].tok].ssl = "freed"

\* C15: between a token's count check and its own decrement of the count no
\* other drop of the group reads the count.
C15_DropIsOneCriticalSection ==
    \A a, b \in Threads :
        (a # b /\ pc[a] \in {"drop_free", "drop_unlock", "drop_arc"})
            => pc[b] # "drop_check"

BuilderStepNames == TextSteps \cup {"with_secure_renegotiation"}

C17_Released ==
    /\ \A th \in Threads :
          (/\ op[th].name \in BuilderStepNames
           /\ Returned(th) /\ ~ReturnedBuilder(th)
           /\ pc[th] = "idle")
          => (freeCount = 1 /\ handle = "freed" /\ strong = 0 /\ lock = 0
               /\ tok[op[th].tok] = DeadToken)
    /\ (\E t \in Tokens : tok[t] = DeadToken
                            /\ \A u \in Tokens \ {t} : tok[u] = NoToken)
          => freeCount = 1

\* The consumed builder starts to drop only after the step's guard is gone,
\* and a failing call frees the context at most once.
C17_GuardReleasedFirst ==
    \A th \in Threads :
        /\ (pc[th] # "drop_lock" /\ pc'[th] = "drop_lock") => lock' # th
        /\ freeCount' <= freeCount + 1

\* C17: a failing builder step, and the drop of a builder without build(),
\* release the native context exactly once, after the step's lock guard
\* has been released.
C17_FailedStepFreesOnce == []C17_Released /\ [][C17_GuardReleasedFirst]_vars

\* with_private_key failed on a path with an interior NUL, found while the
\* lock was held, and the context has been freed.
C17_Witness ==
    \E th \in Threads :
        /\ op[th].name = "with_private_key"
        /\ op[th].input.text.nul
        /\ op[th].result = Res("None", "none")
        /\ pc[th] = "idle"
        /\ freeCount = 1

\* C18: build() returns a Context at once, makes no native call and changes
\* neither the handle, the count nor the lock; the Context is the builder's
\* own token with its method, and no other token appears.
C18_BuildIsFrameOnly ==
    [][\A th \in Threads, t \in Tokens :
         (/\ tok[t].kind = "builder" /\ tok[t].owner = th
          /\ tok'[t].kind = "context")
         => /\ tok' = [tok EXCEPT ![t].kind = "context"]
            /\ op'[th].result = Res("Ok", "context")
            /\ op'[th].ncalls = 0
            /\ UNCHANGED <<handle, requested, freeCount, uaf, lock, strong,
                           pc, inNative>>]_vars

\* A configured builder was finalized: one token, a Context, count 1.
C18_Witness ==
    \E th \in Threads, t \in Tokens :
        /\ op[th].name = "build"
        /\ tok[t].kind = "context" /\ tok[t].owner = th
        /\ strong = 1 /\ handle = "live" /\ freeCount = 0

\* No thread requests the mutex while holding it, and no thread holds it
\* outside an operation.
C16_LockDiscipline ==
    \A th \in Threads :
        /\ pc[th] \in {"lock", "drop_lock"} => lock # th
        /\ pc[th] = "idle" => lock # th

\* C16: under fair scheduling every started operation completes, the
\* mutex is never requested by its holder and it is released before the
\* operation returns.
C16_EveryOperationCompletes ==
    /\ []C16_LockDiscipline
    /\ \A th \in Threads : (pc[th] # "idle") ~> (pc[th] = "idle")

\* Two threads wait for the mutex while a third party is not needed: one
\* drops a Context while the other is inside new_session holding the lock.
C16_Witness ==
    \E a, b \in Threads :
        /\ pc[a] = "drop_lock"
        /\ op[b].name = "new_session" /\ pc[b] = "unlock" /\ lock = b
        /\ op[b].result = Res("Some", "session")
====
